---- MODULE Spec2Model ----
(***************************************************************************)
(* A model of OGImageGrabber (src/main.py): the driver main() and the      *)
(* three functions it calls, download_image, get_page_metadata and         *)
(* save_metadata, together with the parts of urllib.parse and os.path      *)
(* that decide which files they write.                                     *)
(*                                                                         *)
(* A string is a sequence of one-character strings.  An optional value     *)
(* (str | None) is None == <<>> or Some(s) == <<s>>.  A file's content is  *)
(* the sequence of the pieces written to it, one per f.write call.         *)
(***************************************************************************)
EXTENDS Integers, Sequences, FiniteSets, TLC

VARIABLES
    pc,          \* where main() (or the single call under study) stands
    ret,         \* main()'s return value: -1 while running, then 0 or 1
    distDir,     \* what the path 'dist' is: "absent", "dir" or "file"
    files,       \* the files of dist/: file name -> content
    files0,      \* the files of dist/ when the run started
    urlsFile,    \* urls.txt: None when missing, Some(lines) otherwise
    urls,        \* main()'s list urls
    i,           \* position in urls of the URL being processed (1-based)
    meta,        \* (og_image_url, title, description) of the current URL
    calls,       \* the calls main() has made in this run, in order
    answers,     \* what the outside world answered to each call of this run
    last,        \* the last call of a function: arguments, outcome, result
    run,         \* 1 in the first run of main(), 2 in a repeated run
    firstRun     \* after the first run: its answers and the files it left

vars == <<pc, ret, distDir, files, files0, urlsFile, urls, i, meta, calls,
          answers, last, run, firstRun>>

-----------------------------------------------------------------------------
(* Bounds of the model.                                                    *)

\* longest text after "http://a" of the image URLs given to download_image
MaxSuffix == 5
\* most lines of urls.txt
MaxLines == 2

-----------------------------------------------------------------------------
(* Strings and optional values.                                            *)

None == <<>>
Some(s) == <<s>>

\* Python's truth value of a str | None: None and '' are false.
Truthy(opt) == opt # None /\ opt[1] # <<>>

\* s[from..to] (1-based, inclusive), empty when from > to
Slice(s, from, to) == [k \in 1..(to - from + 1) |-> s[from + k - 1]]

\* str.find(c, start): the least index >= start holding c, 0 when there is none
Find(s, c, start) ==
    LET hits == {k \in start..Len(s) : s[k] = c}
    IN  IF hits = {} THEN 0 ELSE CHOOSE k \in hits : \A m \in hits : k <= m

\* str.rfind(c): the greatest index holding c, 0 when there is none
RFind(s, c) ==
    LET hits == {k \in 1..Len(s) : s[k] = c}
    IN  IF hits = {} THEN 0 ELSE CHOOSE k \in hits : \A m \in hits : k >= m

\* the least index >= start holding one of the characters cs, Len(s)+1 if none
FindAny(s, cs, start) ==
    LET hits == {k \in start..Len(s) : s[k] \in cs}
    IN  IF hits = {} THEN Len(s) + 1 ELSE CHOOSE k \in hits : \A m \in hits : k <= m

Whitespace == {" "}

\* str.strip()
Strip(s) ==
    LET keep == {k \in 1..Len(s) : s[k] \notin Whitespace}
    IN  IF keep = {} THEN <<>>
        ELSE Slice(s, CHOOSE k \in keep : \A m \in keep : k <= m,
                      CHOOSE k \in keep : \A m \in keep : k >= m)

-----------------------------------------------------------------------------
(* urllib.parse.urlparse and os.path.basename, as main.py uses them.       *)

\* the letters the model's strings use, and those of them (with '.') that
\* urllib.parse.scheme_chars holds
Letters == {"a", "b", "c", "h", "p", "q", "t", "x", "y", "T", "D"}
SchemeChars == Letters \cup {"."}

\* urlsplit's scheme: the text before the first ':' when it starts with a
\* letter and is made of scheme characters; rest is what follows the ':'
SplitScheme(url) ==
    LET c == Find(url, ":", 1)
    IN  IF c > 1 /\ url[1] \in Letters /\ \A k \in 1..(c - 1) : url[k] \in SchemeChars
        THEN [scheme |-> Slice(url, 1, c - 1), rest |-> Slice(url, c + 1, Len(url))]
        ELSE [scheme |-> <<>>, rest |-> url]

\* urlsplit's netloc: after a leading '//', up to the first of / ? #
SplitNetloc(rest) ==
    IF Len(rest) >= 2 /\ rest[1] = "/" /\ rest[2] = "/"
    THEN LET e == FindAny(rest, {"/", "?", "#"}, 3)
         IN  [netloc |-> Slice(rest, 3, e - 1), rest |-> Slice(rest, e, Len(rest))]
    ELSE [netloc |-> <<>>, rest |-> rest]

\* urlsplit cuts the fragment at the first '#', then the query at the first '?'
CutAt(s, c) ==
    LET k == Find(s, c, 1) IN IF k = 0 THEN s ELSE Slice(s, 1, k - 1)

\* urlparse's _splitparams: the parameters of the last path segment are cut off
SplitParams(path) ==
    LET slash == RFind(path, "/")
        semi  == IF slash > 0 THEN Find(path, ";", slash) ELSE Find(path, ";", 1)
    IN  IF semi = 0 THEN path ELSE Slice(path, 1, semi - 1)

\* urlparse(url).netloc
UrlNetloc(url) == SplitNetloc(SplitScheme(url).rest).netloc

\* urllib.parse.uses_params, as far as the model's strings go: no scheme, http
UsesParams == {<<>>, <<"h", "t", "t", "p">>}

\* urlparse(url).path
UrlPath(url) ==
    LET path == CutAt(CutAt(SplitNetloc(SplitScheme(url).rest).rest, "#"), "?")
    IN  IF SplitScheme(url).scheme \in UsesParams THEN SplitParams(path) ELSE path

\* os.path.basename (posix): what follows the last '/'
Basename(path) == Slice(path, RFind(path, "/") + 1, Len(path))

ImageJpg == <<"i", "m", "a", "g", "e", ".", "j", "p", "g">>

\* Variant of ImageFilename: the base name of the URL itself, not of its path.
ImageFilenameOfUrl(image_url) ==
    LET filename == Basename(image_url)
    IN  IF filename = <<>> THEN ImageJpg ELSE filename

\* download_image's file name
ImageFilename(image_url) ==
    LET filename == Basename(UrlPath(image_url))
    IN  IF filename = <<>> THEN ImageJpg ELSE filename

-----------------------------------------------------------------------------
(* The files of dist/.                                                     *)

NoFiles == <<>>

Exists(fs, name) == name \in DOMAIN fs

\* Variant of Truncate: open(name, 'a'), which keeps what the file holds.
TruncateKeep(fs, name) == IF name \in DOMAIN fs THEN fs ELSE (name :> <<>>) @@ fs

\* open(name, 'w' or 'wb'): the file exists and is empty
Truncate(fs, name) == (name :> <<>>) @@ fs

\* f.write(piece) on the open file name
WritePiece(fs, name, piece) == (name :> (fs[name] \o <<piece>>)) @@ fs

RECURSIVE WriteAll(_, _, _)
\* the pieces written one after the other to the open file name
WriteAll(fs, name, pieces) ==
    IF pieces = <<>> THEN fs
    ELSE WriteAll(WritePiece(fs, name, Head(pieces)), name, Tail(pieces))

-----------------------------------------------------------------------------
(* download_image (src/main.py lines 9-38).                                *)

\* chunks of a response body (iter_content yields them one by one)
NumChunks == 2

\* the body the server sends for image_url, in chunks
Body(image_url) == [k \in 1..NumChunks |-> <<"chunk">> \o image_url \o <<ToString(k)>>]

\* What can happen in one call.  connect_error: requests.get raises;
\* bad_status: raise_for_status raises; open_error: open raises;
\* stream_error: iter_content raises (the connection breaks) after n chunks;
\* write_error: f.write raises after n chunks were written; ok: none of these.
DownloadOutcomes ==
    {[kind |-> k, n |-> 0] : k \in {"connect_error", "bad_status", "open_error"}}
    \cup {[kind |-> k, n |-> n] : k \in {"stream_error", "write_error"},
                                 n \in 0..(NumChunks - 1)}
    \cup {[kind |-> "ok", n |-> NumChunks]}

\* the outcomes the model of main() draws from: one failure before the file
\* is opened, one after, and success
MainDownloadOutcomes ==
    {o \in DownloadOutcomes :
        \/ o.kind \in {"connect_error", "ok"}
        \/ o.kind = "stream_error" /\ o.n = NumChunks - 1}

\* Variant of DownloadFiles: the file is opened before the request is made.
DownloadFilesOpenFirst(fs, image_url, o) ==
    IF o.kind = "open_error" THEN fs
    ELSE WriteAll(Truncate(fs, ImageFilename(image_url)), ImageFilename(image_url),
                  SubSeq(Body(image_url), 1, o.n))

\* the files after download_image(image_url, dist) with outcome o
DownloadFiles(fs, image_url, o) ==
    IF o.kind \in {"connect_error", "bad_status", "open_error"} THEN fs
    ELSE WriteAll(Truncate(fs, ImageFilename(image_url)), ImageFilename(image_url),
                  SubSeq(Body(image_url), 1, o.n))

\* download_image's return value: True only when no statement raised
DownloadReturn(o) == o.kind = "ok"

-----------------------------------------------------------------------------
(* get_page_metadata (src/main.py lines 41-80).                            *)

Http == <<"h", "t", "t", "p", ":", "/", "/">>

\* urljoin(base, ref) for a non-empty ref without dot segments, where base
\* is an http URL without parameters, query or fragment: a ref with a
\* scheme of its own is returned as it is, a ref that starts with '/'
\* replaces the path of base, a ref '?query' (query not empty) is added to base,
\* any other ref replaces the last segment of the path of base
Urljoin(base, ref) ==
    LET b    == SplitScheme(base)
        bnet == SplitNetloc(b.rest)
        bpath == UrlPath(base)
        root == b.scheme \o <<":", "/", "/">> \o bnet.netloc
    IN  IF SplitScheme(ref).scheme # <<>> THEN ref
        ELSE IF ref[1] = "/" THEN root \o ref
        ELSE IF ref[1] = "?" THEN root \o bpath \o ref
        ELSE root \o (IF bpath = <<>> THEN <<"/">> ELSE Slice(bpath, 1, RFind(bpath, "/")))
                  \o ref

\* What the parsed page holds: the text of the first <title>, the content
\* attribute of the first <meta property="og:image"> and of the first
\* <meta name="description">; None when the element (or attribute) is missing.
\* The pages of the model: one with the three elements, its og:image the
\* page itself with a query (so that the image is named after the page);
\* one whose elements are there and empty or blank; one with none of them.
HtmlFull == [title |-> Some(<<" ", "T", " ">>), og |-> Some(<<"?", "x">>),
             description |-> Some(<<"D">>)]
HtmlBlank == [title |-> Some(<<>>), og |-> Some(<<>>), description |-> Some(<<" ">>)]
HtmlBare == [title |-> None, og |-> None, description |-> None]
HtmlDocs == {HtmlFull, HtmlBlank, HtmlBare}

\* What can happen in one call.  connect_error: requests.get or
\* raise_for_status raises; ok: the page html is parsed.
PageOutcomes ==
    {[kind |-> "connect_error", html |-> HtmlBare]}
    \cup {[kind |-> "ok", html |-> d] : d \in HtmlDocs}

\* line 67
TitleText(html) == IF html.title # None THEN Some(Strip(html.title[1])) ELSE None

\* line 71
OgImageUrl(url, html) == IF Truthy(html.og) THEN Some(Urljoin(url, html.og[1])) ELSE None

\* line 75
DescText(html) ==
    IF Truthy(html.description) THEN Some(Strip(html.description[1])) ELSE None

\* get_page_metadata's return value with outcome o
GetPageMetadataReturn(url, o) ==
    IF o.kind = "ok"
    THEN [og_image_url |-> OgImageUrl(url, o.html), title |-> TitleText(o.html),
          description |-> DescText(o.html)]
    ELSE [og_image_url |-> None, title |-> None, description |-> None]

NoMeta == [og_image_url |-> None, title |-> None, description |-> None]

-----------------------------------------------------------------------------
(* save_metadata (src/main.py lines 83-112).                               *)

DotTxt == <<".", "t", "x", "t">>

\* line 101
MetaFilename(url) == UrlNetloc(url) \o DotTxt

NotFound == <<"Not found">>

\* Python's  value or 'Not found'  on a str | None
OrNotFound(opt) == IF Truthy(opt) THEN opt[1] ELSE NotFound

\* lines 105-107: the three strings written, in order
MetaPieces(url, title, description) ==
    << <<"URL: ">> \o url \o <<"\n\n">>,
       <<"Title: ">> \o OrNotFound(title) \o <<"\n\n">>,
       <<"Description: ">> \o OrNotFound(description) \o <<"\n">> >>

\* What can happen in one call.  open_error: open raises; write_error: a
\* write raises after n of the three strings reached the file (here after
\* the first); ok: neither.
SaveOutcomes ==
    {[kind |-> "open_error", n |-> 0]}
    \cup {[kind |-> "write_error", n |-> 1]}
    \cup {[kind |-> "ok", n |-> 3]}

\* Variant of SaveFiles: a failed write is cleaned up by emptying dist/.
SaveFilesWipe(fs, url, title, description, o) ==
    IF o.kind = "open_error" THEN fs
    ELSE IF o.kind = "write_error" THEN NoFiles
    ELSE WriteAll(Truncate(fs, MetaFilename(url)), MetaFilename(url),
                  SubSeq(MetaPieces(url, title, description), 1, o.n))

\* the files after save_metadata(url, title, description, dist) with outcome o
SaveFiles(fs, url, title, description, o) ==
    IF o.kind = "open_error" THEN fs
    ELSE WriteAll(Truncate(fs, MetaFilename(url)), MetaFilename(url),
                  SubSeq(MetaPieces(url, title, description), 1, o.n))

\* save_metadata's return value: True only when no statement raised
SaveReturn(o) == o.kind = "ok"

-----------------------------------------------------------------------------
(* main (src/main.py lines 115-163).                                       *)

\* the lines urls.txt may hold: two pages of one host, a URL without path
\* that has blanks around it, and a blank line
LineA1 == Http \o <<"a", "/", "p">>
LineA2 == Http \o <<"a", "/", "q">>
LineB  == <<" ">> \o Http \o <<"b">> \o <<" ">>
LineBlank == <<" ">>
Lines == {LineA1, LineA2, LineB, LineBlank}

UrlsFiles == {None} \cup {Some(f) : f \in UNION {[1..n -> Lines] : n \in 0..MaxLines}}

\* files a former run left in dist/
OldPiece == <<"old">>
StaleFiles == (MetaFilename(LineA1) :> <<OldPiece>>) @@ (<<"p">> :> <<OldPiece>>)

RECURSIVE ReadLines(_)
\* line 143: [line.strip() for line in f if line.strip()]
ReadLines(lines) ==
    IF lines = <<>> THEN <<>>
    ELSE (IF Strip(Head(lines)) # <<>> THEN <<Strip(Head(lines))>> ELSE <<>>)
         \o ReadLines(Tail(lines))

\* lines 147-156 for one URL, as a function of the files: get, ds and s are
\* what happens in get_page_metadata, download_image and save_metadata
ProcessUrl(fs, url, get, ds, s) ==
    LET m == GetPageMetadataReturn(url, get)
    IN  SaveFiles(IF Truthy(m.og_image_url)
                  THEN DownloadFiles(fs, m.og_image_url[1], ds) ELSE fs,
                  url, m.title, m.description, s)

NoCall == [op |-> "none", url |-> <<>>, title |-> None, description |-> None,
           kind |-> "none", ret |-> FALSE, before |-> NoFiles]

Init ==
    /\ pc = "mkdir"
    /\ ret = -1
    /\ distDir \in {"absent", "dir", "file"}
    /\ files = IF distDir = "dir" THEN StaleFiles ELSE NoFiles
    /\ files0 = files
    /\ urlsFile \in UrlsFiles
    /\ urls = <<>>
    /\ i = 0
    /\ meta = NoMeta
    /\ calls = <<>>
    /\ answers = <<>>
    /\ last = NoCall
    /\ run = 1
    /\ firstRun = [answers |-> <<>>, files |-> NoFiles]

\* line 139; FileExistsError when dist is a file, caught at line 159
Mkdir ==
    /\ pc = "mkdir"
    /\ IF distDir = "file"
       THEN /\ pc' = "done"
            /\ ret' = 1
            /\ UNCHANGED distDir
       ELSE /\ pc' = "read"
            /\ distDir' = "dir"
            /\ UNCHANGED ret
    /\ UNCHANGED <<files, files0, urlsFile, urls, i, meta, calls, answers, last,
                   run, firstRun>>

\* Variant of ReadUrls: a missing urls.txt is read as an empty list.
ReadUrlsMissingIsEmpty ==
    /\ pc = "read"
    /\ pc' = "loop"
    /\ urls' = IF urlsFile = None THEN <<>> ELSE ReadLines(urlsFile[1])
    /\ i' = 1
    /\ UNCHANGED <<ret, distDir, files, files0, urlsFile, meta, calls, answers,
                   last, run, firstRun>>

\* lines 142-143; FileNotFoundError when urls.txt is missing, caught at line 159
ReadUrls ==
    /\ pc = "read"
    /\ IF urlsFile = None
       THEN /\ pc' = "done"
            /\ ret' = 1
            /\ UNCHANGED <<urls, i>>
       ELSE /\ pc' = "loop"
            /\ urls' = ReadLines(urlsFile[1])
            /\ i' = 1
            /\ UNCHANGED ret
    /\ UNCHANGED <<distDir, files, files0, urlsFile, meta, calls, answers, last,
                   run, firstRun>>

\* Variant of GetPageMetadata: without the try/except of lines 59-80 a
\* failed fetch reaches the handler of line 159.
GetPageMetadataUncaught(o) ==
    /\ pc = "loop"
    /\ i <= Len(urls)
    /\ meta' = GetPageMetadataReturn(urls[i], o)
    /\ calls' = calls \o <<[fn |-> "get_page_metadata", pos |-> i, url |-> urls[i],
                            og |-> GetPageMetadataReturn(urls[i], o).og_image_url]>>
    /\ answers' = answers \o <<o>>
    /\ last' = [NoCall EXCEPT !.op = "get_page_metadata", !.url = urls[i],
                              !.kind = o.kind, !.ret = (o.kind = "ok"),
                              !.before = files]
    /\ pc' = IF o.kind = "ok" THEN "image" ELSE "done"
    /\ ret' = IF o.kind = "ok" THEN ret ELSE 1
    /\ UNCHANGED <<distDir, files, files0, urlsFile, urls, i, run, firstRun>>

\* line 147, with o what happens in the call
GetPageMetadata(o) ==
    /\ pc = "loop"
    /\ i <= Len(urls)
    /\ meta' = GetPageMetadataReturn(urls[i], o)
    /\ calls' = calls \o <<[fn |-> "get_page_metadata", pos |-> i, url |-> urls[i],
                            og |-> GetPageMetadataReturn(urls[i], o).og_image_url]>>
    /\ answers' = answers \o <<o>>
    /\ last' = [NoCall EXCEPT !.op = "get_page_metadata", !.url = urls[i],
                              !.kind = o.kind, !.ret = (o.kind = "ok"),
                              !.before = files]
    /\ pc' = "image"
    /\ UNCHANGED <<ret, distDir, files, files0, urlsFile, urls, i, run, firstRun>>

\* Variant of DownloadImage: without the try/except of lines 20-38 a failed
\* download reaches the handler of line 159.
DownloadImageUncaught(o) ==
    /\ pc = "image"
    /\ Truthy(meta.og_image_url)
    /\ files' = DownloadFiles(files, meta.og_image_url[1], o)
    /\ calls' = calls \o <<[fn |-> "download_image", pos |-> i,
                            url |-> meta.og_image_url[1], og |-> None]>>
    /\ answers' = answers \o <<o>>
    /\ last' = [NoCall EXCEPT !.op = "download_image", !.url = meta.og_image_url[1],
                              !.kind = o.kind, !.ret = DownloadReturn(o),
                              !.before = files]
    /\ pc' = IF o.kind = "ok" THEN "save" ELSE "done"
    /\ ret' = IF o.kind = "ok" THEN ret ELSE 1
    /\ UNCHANGED <<distDir, files0, urlsFile, urls, i, meta, run, firstRun>>

\* lines 149-152, with o what happens in the call
DownloadImage(o) ==
    /\ pc = "image"
    /\ Truthy(meta.og_image_url)
    /\ files' = DownloadFiles(files, meta.og_image_url[1], o)
    /\ calls' = calls \o <<[fn |-> "download_image", pos |-> i,
                            url |-> meta.og_image_url[1], og |-> None]>>
    /\ answers' = answers \o <<o>>
    /\ last' = [NoCall EXCEPT !.op = "download_image", !.url = meta.og_image_url[1],
                              !.kind = o.kind, !.ret = DownloadReturn(o),
                              !.before = files]
    /\ pc' = "save"
    /\ UNCHANGED <<ret, distDir, files0, urlsFile, urls, i, meta, run, firstRun>>

\* Variant of NoImage: the download is skipped whether or not an og:image
\* URL was found.
NoImageUnguarded ==
    /\ pc = "image"
    /\ pc' = "save"
    /\ UNCHANGED <<ret, distDir, files, files0, urlsFile, urls, i, meta, calls,
                   answers, last, run, firstRun>>

\* lines 153-154
NoImage ==
    /\ pc = "image"
    /\ ~Truthy(meta.og_image_url)
    /\ pc' = "save"
    /\ UNCHANGED <<ret, distDir, files, files0, urlsFile, urls, i, meta, calls,
                   answers, last, run, firstRun>>

\* Variant of SaveMetadata: without the try/except of lines 99-112 a failed
\* save reaches the handler of line 159.
SaveMetadataUncaught(o) ==
    /\ pc = "save"
    /\ files' = SaveFiles(files, urls[i], meta.title, meta.description, o)
    /\ calls' = calls \o <<[fn |-> "save_metadata", pos |-> i, url |-> urls[i],
                            og |-> None]>>
    /\ answers' = answers \o <<o>>
    /\ last' = [NoCall EXCEPT !.op = "save_metadata", !.url = urls[i],
                              !.title = meta.title,
                              !.description = meta.description,
                              !.kind = o.kind, !.ret = SaveReturn(o),
                              !.before = files]
    /\ i' = IF o.kind = "ok" THEN i + 1 ELSE i
    /\ pc' = IF o.kind = "ok" THEN "loop" ELSE "done"
    /\ ret' = IF o.kind = "ok" THEN ret ELSE 1
    /\ UNCHANGED <<distDir, files0, urlsFile, urls, meta, run, firstRun>>

\* lines 156-157 and the step of the for loop, with o what happens in the call
SaveMetadata(o) ==
    /\ pc = "save"
    /\ files' = SaveFiles(files, urls[i], meta.title, meta.description, o)
    /\ calls' = calls \o <<[fn |-> "save_metadata", pos |-> i, url |-> urls[i],
                            og |-> None]>>
    /\ answers' = answers \o <<o>>
    /\ last' = [NoCall EXCEPT !.op = "save_metadata", !.url = urls[i],
                              !.title = meta.title,
                              !.description = meta.description,
                              !.kind = o.kind, !.ret = SaveReturn(o),
                              !.before = files]
    /\ i' = i + 1
    /\ pc' = "loop"
    /\ UNCHANGED <<ret, distDir, files0, urlsFile, urls, meta, run, firstRun>>

\* line 163, when the for loop is over
Return0 ==
    /\ pc = "loop"
    /\ i > Len(urls)
    /\ ret' = 0
    /\ pc' = "done"
    /\ UNCHANGED <<distDir, files, files0, urlsFile, urls, i, meta, calls,
                   answers, last, run, firstRun>>

Next ==
    \/ Mkdir
    \/ ReadUrls
    \/ \E o \in PageOutcomes : GetPageMetadata(o)
    \/ \E o \in MainDownloadOutcomes : DownloadImage(o)
    \/ NoImage
    \/ \E o \in SaveOutcomes : SaveMetadata(o)
    \/ Return0

Spec == Init /\ [][Next]_vars

-----------------------------------------------------------------------------
(* download_image called on its own, on every image URL  http://a<text>    *)
(* with <text> of at most MaxSuffix characters.                            *)

UrlAlphabet == {"a", "/", "?", "#", ";"}
FetchUrls ==
    {Http \o <<"a">> \o t : t \in UNION {[1..n -> UrlAlphabet] : n \in 0..MaxSuffix}}

FetchInit ==
    /\ pc = "image"
    /\ ret = -1
    /\ distDir = "dir"
    /\ \E u \in FetchUrls :
         /\ meta = [og_image_url |-> Some(u), title |-> None, description |-> None]
         /\ files \in {StaleFiles, (ImageFilename(u) :> <<OldPiece>>) @@ StaleFiles}
    /\ files0 = files
    /\ urlsFile = None
    /\ urls = <<>>
    /\ i = 0
    /\ calls = <<>>
    /\ answers = <<>>
    /\ last = NoCall
    /\ run = 1
    /\ firstRun = [answers |-> <<>>, files |-> NoFiles]

FetchNext == \E o \in DownloadOutcomes : DownloadImage(o)

SpecFetch == FetchInit /\ [][FetchNext]_vars

-----------------------------------------------------------------------------
(* main() run a second time on the same urls.txt, the outside world        *)
(* answering each call as it did in the first run.  urls.txt is there and  *)
(* holds one to MaxLines lines, each one of two URLs of different hosts    *)
(* (so a URL may come twice); dist is a directory or does not exist yet.   *)

TwiceUrlsFiles == {Some(f) : f \in UNION {[1..n -> {LineA1, LineB}] : n \in 1..MaxLines}}

TwiceInit ==
    /\ Init
    /\ distDir \in {"absent", "dir"}
    /\ urlsFile \in TwiceUrlsFiles

Rerun ==
    /\ pc = "done"
    /\ run = 1
    /\ firstRun' = [answers |-> answers, files |-> files]
    /\ run' = 2
    /\ pc' = "mkdir"
    /\ ret' = -1
    /\ files0' = files
    /\ urls' = <<>>
    /\ i' = 0
    /\ meta' = NoMeta
    /\ calls' = <<>>
    /\ answers' = <<>>
    /\ last' = NoCall
    /\ UNCHANGED <<distDir, files, urlsFile>>

\* the answer of the first run to the call that comes next
SameAnswer == firstRun.answers[Len(answers) + 1]

\* the calls of the first run: any answer
FirstRunCall ==
    /\ run = 1
    /\ \/ \E o \in PageOutcomes : GetPageMetadata(o)
       \/ \E o \in MainDownloadOutcomes : DownloadImage(o)
       \/ \E o \in SaveOutcomes : SaveMetadata(o)

\* the calls of the second run: the answer of the first run
SecondRunCall ==
    /\ run = 2
    /\ \/ pc = "loop" /\ i <= Len(urls) /\ GetPageMetadata(SameAnswer)
       \/ pc = "image" /\ Truthy(meta.og_image_url) /\ DownloadImage(SameAnswer)
       \/ pc = "save" /\ SaveMetadata(SameAnswer)

TwiceNext ==
    \/ Mkdir
    \/ ReadUrls
    \/ FirstRunCall
    \/ NoImage
    \/ Return0
    \/ Rerun
    \/ SecondRunCall

SpecTwice == TwiceInit /\ [][TwiceNext]_vars

-----------------------------------------------------------------------------
(* What the claims speak of, stated apart from the code's own operators.   *)

CallsOf(fn) == SelectSeq(calls, LAMBDA c : c.fn = fn)

Blanks(n) == [k \in 1..n |-> " "]

\* u is the line l without the blanks around it
IsTrimOf(u, l) ==
    /\ u # <<>>
    /\ u[1] # " "
    /\ u[Len(u)] # " "
    /\ \E a \in 0..Len(l) : \E b \in 0..Len(l) : l = Blanks(a) \o u \o Blanks(b)

\* the lines that hold something else than blanks
NonBlankLines(lines) == SelectSeq(lines, LAMBDA l : \E k \in 1..Len(l) : l[k] # " ")

\* the host of the page URLs of the model
HostOf(url) == IF url \in {LineA1, LineA2} THEN <<"a">> ELSE <<"b">>
HostTxt(url) == HostOf(url) \o <<".", "t", "x", "t">>

\* the three blocks of a metadata file (spec, section 6)
Blocks(url, titleField, descriptionField) ==
    << <<"URL: ">> \o url \o <<"\n\n">>,
       <<"Title: ">> \o titleField \o <<"\n\n">>,
       <<"Description: ">> \o descriptionField \o <<"\n">> >>

\* the answer get_page_metadata got for the URL at position p
FetchFailedAt(p) ==
    \E k \in 1..Len(calls) :
        calls[k].fn = "get_page_metadata" /\ calls[k].pos = p /\ answers[k].kind # "ok"

\* some call of function fn failed in this run
SomeFailure(fn) ==
    \E k \in 1..Len(calls) : calls[k].fn = fn /\ answers[k].kind # "ok"

-----------------------------------------------------------------------------
(* C1: once urls.txt has been read, main() processes every non-blank line, *)
(* trimmed, in file order and once per occurrence: get_page_metadata and   *)
(* save_metadata are each called exactly once per such line, whatever the  *)
(* calls answer, and main() never stops short of the end of the list.      *)
C1_EveryUrlProcessed ==
    /\ (pc = "done" /\ distDir = "dir" /\ urlsFile # None) =>
          LET want  == NonBlankLines(urlsFile[1])
              gets  == CallsOf("get_page_metadata")
              saves == CallsOf("save_metadata")
          IN  /\ Len(gets) = Len(want)
              /\ Len(saves) = Len(want)
              /\ \A k \in 1..Len(want) :
                    /\ gets[k].pos = k
                    /\ saves[k].pos = k
                    /\ IsTrimOf(gets[k].url, want[k])
                    /\ saves[k].url = gets[k].url
    /\ pc # "done" => ENABLED Next

\* the same URL twice, the page fetch of the first failing, a download and
\* the last save failing too, and the run ended normally
C1_Witness ==
    /\ pc = "done"
    /\ ret = 0
    /\ Len(urls) = 2
    /\ urls[1] = urls[2]
    /\ FetchFailedAt(1)
    /\ SomeFailure("download_image")
    /\ last.op = "save_metadata"
    /\ ~last.ret

(* C2: main() returns 1 only for a failure at startup, before any URL is   *)
(* processed (dist cannot be created, urls.txt cannot be opened); a run    *)
(* in which a URL was processed returns 0, whatever failed for its URLs.   *)
C2_ExitCode ==
    pc = "done" =>
        /\ ret \in {0, 1}
        /\ ret = 1 => calls = <<>> /\ (distDir = "file" \/ urlsFile = None)
        /\ calls # <<>> => ret = 0

\* two URLs, every call made for them failed, and main() returned 0
C2_Witness ==
    /\ pc = "done"
    /\ ret = 0
    /\ Len(urls) = 2
    /\ \A k \in 1..Len(answers) : answers[k].kind # "ok"

(* C3: when urls.txt is missing main() returns 1, calls none of the three  *)
(* functions and writes no file: dist exists afterwards, as it was or      *)
(* newly created and empty.                                                *)
C3_MissingUrlsFile ==
    urlsFile = None =>
        /\ calls = <<>>
        /\ files = files0
        /\ ret # 0
        /\ pc = "done" => ret = 1 /\ distDir # "absent"

\* urls.txt is missing, dist did not exist and was created, main() returned 1
C3_Witness ==
    /\ urlsFile = None
    /\ pc = "done"
    /\ ret = 1
    /\ distDir = "dir"
    /\ files0 = NoFiles

(* C10: the calls are strictly sequential: for each URL get_page_metadata, *)
(* then download_image exactly when get_page_metadata returned an og:image *)
(* URL (and on that URL), then save_metadata; the calls for the URL at     *)
(* position p+1 start only after save_metadata for position p.            *)
C10_Sequential ==
    /\ \A k \in 1..Len(calls) :
         LET c == calls[k]
         IN  /\ k = 1 => c.fn = "get_page_metadata" /\ c.pos = 1
             /\ (k < Len(calls) /\ c.fn = "get_page_metadata") =>
                   /\ calls[k + 1].pos = c.pos
                   /\ calls[k + 1].fn =
                        (IF c.og # None THEN "download_image" ELSE "save_metadata")
                   /\ c.og # None => calls[k + 1].url = c.og[1]
             /\ (k < Len(calls) /\ c.fn = "download_image") =>
                   calls[k + 1].pos = c.pos /\ calls[k + 1].fn = "save_metadata"
             /\ (k < Len(calls) /\ c.fn = "save_metadata") =>
                   calls[k + 1].pos = c.pos + 1 /\ calls[k + 1].fn = "get_page_metadata"
    /\ (pc = "done" /\ calls # <<>>) => calls[Len(calls)].fn = "save_metadata"
    /\ (pc = "save" /\ calls # <<>> /\ calls[Len(calls)].fn = "get_page_metadata") =>
          calls[Len(calls)].og = None

\* a finished run of two URLs: an image for the first, none for the second
C10_Witness ==
    /\ pc = "done"
    /\ Len(urls) = 2
    /\ \E k \in 1..Len(calls) : calls[k].fn = "download_image" /\ calls[k].pos = 1
    /\ ~\E k \in 1..Len(calls) : calls[k].fn = "download_image" /\ calls[k].pos = 2

(* C4: save_metadata, when it succeeds, leaves <host>.txt holding the three *)
(* blocks URL, Title, Description, the Title being the given title when    *)
(* one is given, an empty one included, and 'Not found' only when none is  *)
(* given; likewise the Description.                                        *)
C4_SaveMetadataBlocks ==
    (last.op = "save_metadata" /\ last.ret) =>
        /\ Exists(files, HostTxt(last.url))
        /\ files[HostTxt(last.url)] =
              Blocks(last.url,
                     IF last.title # None THEN last.title[1] ELSE NotFound,
                     IF last.description # None THEN last.description[1] ELSE NotFound)

(* C5: when the page fetch fails, get_page_metadata returns the three      *)
(* values absent and main() goes on: it calls download_image no time for   *)
(* that URL and calls save_metadata with title and description absent,     *)
(* which, when it succeeds, leaves <host>.txt with 'Not found' for both.   *)
C5_FetchFailure ==
    /\ (last.op = "get_page_metadata" /\ last.kind # "ok") =>
          meta = NoMeta /\ pc \in {"image", "save"} /\ ret = -1
    /\ \A k \in 1..Len(calls) :
          (calls[k].fn = "get_page_metadata" /\ answers[k].kind # "ok") =>
              /\ calls[k].og = None
              /\ ~\E m \in 1..Len(calls) :
                     calls[m].fn = "download_image" /\ calls[m].pos = calls[k].pos
              /\ (k < Len(calls) \/ pc \in {"loop", "done"}) =>
                     /\ k < Len(calls)
                     /\ calls[k + 1].fn = "save_metadata"
                     /\ calls[k + 1].pos = calls[k].pos
    /\ (last.op = "save_metadata" /\ FetchFailedAt(calls[Len(calls)].pos)) =>
          /\ last.title = None
          /\ last.description = None
          /\ last.ret =>
                /\ Exists(files, HostTxt(last.url))
                /\ files[HostTxt(last.url)] = Blocks(last.url, NotFound, NotFound)

\* the fetch of the second URL failed and its save, over the file the
\* first URL of the same host had written, succeeded
C5_Witness ==
    /\ last.op = "save_metadata"
    /\ last.ret
    /\ calls[Len(calls)].pos = 2
    /\ FetchFailedAt(2)
    /\ ~FetchFailedAt(1)
    /\ urls[1] # urls[2]
    /\ HostOf(urls[1]) = HostOf(urls[2])
    /\ files[HostTxt(last.url)] = Blocks(last.url, NotFound, NotFound)

-----------------------------------------------------------------------------
(* The claims about download_image, under SpecFetch.                       *)

\* the names of the files that differ between two states of dist/
ChangedNames(old, new) ==
    {n \in DOMAIN old \cup DOMAIN new :
        ~(n \in DOMAIN old /\ n \in DOMAIN new /\ old[n] = new[n])}

RECURSIVE TakeUntil(_, _)
\* s up to its first character of stops
TakeUntil(s, stops) ==
    IF s = <<>> \/ Head(s) \in stops THEN <<>>
    ELSE <<Head(s)>> \o TakeUntil(Tail(s), stops)

RECURSIVE DropUntil(_, _)
\* s from its first character of stops on
DropUntil(s, stops) ==
    IF s = <<>> \/ Head(s) \in stops THEN s ELSE DropUntil(Tail(s), stops)

RECURSIVE LastSegment(_)
\* what follows the last '/' of s
LastSegment(s) ==
    IF DropUntil(s, {"/"}) = <<>> THEN s ELSE LastSegment(Tail(DropUntil(s, {"/"})))

\* the path component of  http://authority/path?query#fragment  (RFC 3986):
\* what follows the authority, up to the first '?' or '#'
PathOf(url) ==
    TakeUntil(DropUntil(SubSeq(url, Len(Http) + 1, Len(url)), {"/", "?", "#"}),
              {"?", "#"})

FinalSegmentOf(url) == LastSegment(PathOf(url))

\* the final segment without its parameters (what follows its first ';')
FinalSegmentNoParams(url) == TakeUntil(FinalSegmentOf(url), {";"})

FallbackName == <<"i", "m", "a", "g", "e", ".", "j", "p", "g">>

\* download_image got as far as opening its file
FileOpened == last.op = "download_image" /\ last.kind \in {"stream_error", "write_error", "ok"}

(* C6, as stated: download_image never raises; it returns true exactly     *)
(* when the whole body was written to its file and false on any failure;   *)
(* it touches at most one file; on a network error or a non-success status *)
(* it creates or modifies no file; a partial file remains only when the    *)
(* failure came after the file was opened.                                 *)
C6_AsStated ==
    last.op = "download_image" =>
        /\ pc = "save" /\ ret = -1
        /\ last.ret <=> \E n \in DOMAIN files : files[n] = Body(last.url)
        /\ last.ret <=> last.kind = "ok"
        /\ Cardinality(ChangedNames(last.before, files)) <= 1
        /\ last.kind \in {"connect_error", "stream_error", "bad_status"} =>
              files = last.before
        /\ (files # last.before /\ ~last.ret) => FileOpened

(* C6, amended: as above, but only a network error raised by the request   *)
(* itself (before the response arrives) leaves the files untouched; a      *)
(* network error while the body is streamed comes after the file was       *)
(* opened and leaves it truncated, with the chunks received so far.        *)
C6_DownloadImage ==
    last.op = "download_image" =>
        /\ pc = "save" /\ ret = -1
        /\ last.ret <=> \E n \in DOMAIN files : files[n] = Body(last.url)
        /\ last.ret <=> last.kind = "ok"
        /\ Cardinality(ChangedNames(last.before, files)) <= 1
        /\ last.kind \in {"connect_error", "bad_status"} => files = last.before
        /\ (files # last.before /\ ~last.ret) => FileOpened
        /\ last.kind = "stream_error" =>
              \E n \in DOMAIN files : \E m \in 0..(NumChunks - 1) :
                  /\ files[n] = SubSeq(Body(last.url), 1, m)
                  /\ ChangedNames(last.before, files) = {n}

\* a non-success status for an image whose file exists from a former run:
\* false is returned and the old file is as it was
C6_Witness ==
    /\ last.op = "download_image"
    /\ last.kind = "bad_status"
    /\ ~last.ret
    /\ \E n \in DOMAIN files : n \notin DOMAIN StaleFiles /\ files[n] = <<OldPiece>>

(* C7, as stated: the file download_image writes is named after the final  *)
(* segment of the path component of the image URL (query and fragment      *)
(* excluded), and 'image.jpg' exactly when that segment is empty.          *)
C7_AsStated ==
    FileOpened =>
        ChangedNames(last.before, files) =
            {IF FinalSegmentOf(last.url) = <<>> THEN FallbackName
             ELSE FinalSegmentOf(last.url)}

(* C7, amended: the name is the final segment of the path component        *)
(* without the query, the fragment and the parameters of that segment      *)
(* (what follows its first ';'), and 'image.jpg' exactly when what is left *)
(* is empty: the URL has no path, its path ends in '/', or its final       *)
(* segment starts with ';'.                                                *)
C7_ImageFilename ==
    FileOpened =>
        /\ ChangedNames(last.before, files) =
              {IF FinalSegmentNoParams(last.url) = <<>> THEN FallbackName
               ELSE FinalSegmentNoParams(last.url)}
        /\ ChangedNames(last.before, files) = {FallbackName} <=>
              \/ PathOf(last.url) = <<>>
              \/ PathOf(last.url)[Len(PathOf(last.url))] = "/"
              \/ FinalSegmentOf(last.url)[1] = ";"

\* a download that succeeded for http://a/a;a?, written to the file a
C7_Witness ==
    /\ last.op = "download_image"
    /\ last.ret
    /\ last.url = Http \o <<"a", "/", "a", ";", "a", "?">>
    /\ files[<<"a">>] = Body(last.url)

-----------------------------------------------------------------------------
(* The claims about the files of a whole run.                              *)

\* the index in calls of the call of fn for position p, 0 when there is none
CallIndex(fn, p) ==
    LET ks == {k \in 1..Len(calls) : calls[k].fn = fn /\ calls[k].pos = p}
    IN  IF ks = {} THEN 0 ELSE CHOOSE k \in ks : TRUE

\* every call made for position p succeeded
Succeeded(p) ==
    \A k \in 1..Len(calls) : calls[k].pos = p => answers[k].kind = "ok"

\* the files the calls for position p write to
NamesOf(p) ==
    {MetaFilename(urls[p])} \cup
    {ImageFilename(calls[k].url) :
        k \in {m \in 1..Len(calls) : calls[m].fn = "download_image" /\ calls[m].pos = p}}

RECURSIVE RunSucceeded(_, _)
\* the files a run leaves that processes, from position p on, only the URLs
\* of this run for which every call succeeded, with the answers of this run
RunSucceeded(fs, p) ==
    IF p > Len(urls) THEN fs
    ELSE RunSucceeded(
            IF Succeeded(p)
            THEN ProcessUrl(fs, urls[p], answers[CallIndex("get_page_metadata", p)],
                            IF CallIndex("download_image", p) = 0
                            THEN [kind |-> "ok", n |-> NumChunks]
                            ELSE answers[CallIndex("download_image", p)],
                            answers[CallIndex("save_metadata", p)])
            ELSE fs,
            p + 1)

\* the file named n is the same (or missing) in a and in b
SameFile(a, b, n) ==
    /\ n \in DOMAIN a <=> n \in DOMAIN b
    /\ n \in DOMAIN a => a[n] = b[n]

(* C9, as stated: for any list and any failures, the files of a URL for    *)
(* which everything succeeded are at the end of the run what they would be *)
(* had the failing URLs not been in the list, also when a failing URL has  *)
(* the same host or the same image file name.                              *)
C9_AsStated ==
    (pc = "done" /\ ret = 0) =>
        \A p \in 1..Len(urls) :
            Succeeded(p) =>
                \A n \in NamesOf(p) : SameFile(files, RunSucceeded(files0, 1), n)

(* C9, amended: the same, for a URL no file of which (metadata file named  *)
(* after the host, image file) a failing URL of the list writes to.        *)
C9_Isolation ==
    (pc = "done" /\ ret = 0) =>
        \A p \in 1..Len(urls) :
            (/\ Succeeded(p)
             /\ \A q \in 1..Len(urls) : ~Succeeded(q) => NamesOf(q) \cap NamesOf(p) = {}) =>
                \A n \in NamesOf(p) : SameFile(files, RunSucceeded(files0, 1), n)

\* the first URL succeeded, image included; the second, of another host and
\* with another image file, had its download and its save fail after the
\* files were opened
C9_Witness ==
    /\ pc = "done"
    /\ ret = 0
    /\ Len(urls) = 2
    /\ Succeeded(1)
    /\ CallIndex("download_image", 1) # 0
    /\ CallIndex("download_image", 2) # 0
    /\ answers[CallIndex("download_image", 2)].kind = "stream_error"
    /\ answers[CallIndex("save_metadata", 2)].kind = "write_error"
    /\ NamesOf(1) \cap NamesOf(2) = {}

-----------------------------------------------------------------------------
(* C8, under SpecTwice: a second run of main() on the same urls.txt, with  *)
(* every call answered as in the first run, makes the same calls and       *)
(* leaves dist/ with the same files and the same content in each.          *)
C8_Idempotent ==
    /\ (run = 2 /\ pc = "done") =>
          /\ files = firstRun.files
          /\ Len(answers) = Len(firstRun.answers)
    /\ run = 2 =>
          /\ Len(answers) <= Len(firstRun.answers)
          /\ \A k \in 1..Len(answers) : answers[k] = firstRun.answers[k]
          /\ (\/ pc = "loop" /\ i <= Len(urls)
              \/ pc = "image" /\ Truthy(meta.og_image_url)
              \/ pc = "save") =>
                /\ Len(answers) < Len(firstRun.answers)
                /\ "html" \in DOMAIN SameAnswer <=> pc = "loop"

\* a second run over the same URL twice has ended: both metadata writes
\* and both image downloads succeeded, over the files of the first run
C8_Witness ==
    /\ run = 2
    /\ pc = "done"
    /\ ret = 0
    /\ Len(urls) = 2
    /\ urls[1] = urls[2]
    /\ Succeeded(1)
    /\ Succeeded(2)
    /\ CallIndex("download_image", 2) # 0
    /\ files0 = files
    /\ files # NoFiles

====
